---- MODULE Spec2Model ----
(***************************************************************************)
(* The raster filters of src/lib/imageUtils.ts, applied to the pixel       *)
(* buffer of a canvas.                                                     *)
(*                                                                         *)
(* Numbers.  A JavaScript number is modelled as a fixed-point integer in   *)
(* units of 10^-6 ("micro"): 1.0 is ONE, 0.299 is 299000.  Every product   *)
(* the filters form has at most six decimals, and is therefore exact here, *)
(* except the chained lines of the vintage style, which are truncated at   *)
(* the sixth decimal.  A result that is an exact tie between two integers  *)
(* is rounded to even here; the palette and the argument values below are  *)
(* such that no sample of a model run is at such a tie, where a double's   *)
(* representation error could round the other way.  NaN (a read of an     *)
(* index outside the buffer gives undefined, and undefined in arithmetic   *)
(* gives NaN) is tracked apart, as a flag.                                 *)
(*                                                                         *)
(* The buffer is the data of an ImageData, a Uint8ClampedArray: a sequence *)
(* of samples, sample k of the code being data[k+1] here.  A store into it *)
(* converts the number as ToUint8Clamp does.                               *)
(***************************************************************************)
EXTENDS Integers, Sequences, FiniteSets, TLC

VARIABLES width, height, data, ctx, pc, op, before, resampled, score, gen, prev,
          design, studio, route

vars == <<width, height, data, ctx, pc, op, before, resampled, score, gen, prev,
          design, studio, route>>

(* the state of the pages and of the generate route *)
pages == <<design, studio, route>>

----------------------------------------------------------------------------
(* Bounds of the model *)

MaxW == 2
MaxH == 2
MaxScale == 2

(* The pixels an input image is made of: opaque black, a translucent colour *)
Palette == { <<0, 0, 0, 255>>, <<200, 100, 40, 128>> }

(* strength and intensity arguments, in tenths; -10 and 20 lie outside [0,1] *)
Strengths == {-10, 0, 3, 5, 10, 20}
Intensities == {-10, 0, 5, 10, 20}

Styles == {"vintage", "cool", "warm", "vivid", "monochrome"}
Schemes == {"natural", "cool", "warm"}

----------------------------------------------------------------------------
(* Numbers *)

ONE == 1000000
HALF == 500000

(* a tenths argument as a number *)
Tenths(t) == t * 100000

(* an integer sample as a number *)
Num(v) == v * ONE

Min(a, b) == IF a < b THEN a ELSE b
Max(a, b) == IF a > b THEN a ELSE b
Abs(a) == IF a < 0 THEN -a ELSE a

(* x * y of two numbers: floor(x*y / 10^6), formed without leaving 32 bits *)
Mul(x, y) ==
  LET xh == x \div 1000
      xl == x % 1000
      yh == y \div 1000
      yl == y % 1000
  IN  xh * yh + ((xh * yl + xl * yh) + ((xl * yl) \div 1000)) \div 1000

(* the conversion of a store into a Uint8ClampedArray: clamp to [0,255],   *)
(* round to nearest, ties to even                                          *)
ToUint8ClampNoFloor(x) ==
  IF x >= Num(255) THEN 255
  ELSE LET f == x \div ONE
           frac == x % ONE
       IN  IF frac < HALF THEN f
           ELSE IF frac > HALF THEN f + 1
           ELSE IF f % 2 = 0 THEN f ELSE f + 1

ToUint8Clamp(x) ==
  IF x <= 0 THEN 0
  ELSE IF x >= Num(255) THEN 255
  ELSE LET f == x \div ONE
           frac == x % ONE
       IN  IF frac < HALF THEN f
           ELSE IF frac > HALF THEN f + 1
           ELSE IF f % 2 = 0 THEN f ELSE f + 1

(* a store of NaN into a Uint8ClampedArray *)
ToUint8ClampNaN == 0

----------------------------------------------------------------------------
(* Buffers *)

(* data[k] of the code *)
At(d, k) == d[k + 1]

(* k is an index of the buffer; a read of any other index gives undefined *)
Defined(d, k) == k >= 0 /\ k < Len(d)

(* the buffers of w x h pixels taken from the palette *)
Images(w, h) ==
  { [k \in 1..(4 * w * h) |-> px[((k - 1) \div 4) + 1][((k - 1) % 4) + 1]] :
      px \in [1..(w * h) -> Palette] }

NoCall == [name |-> "none", strength |-> 0, scale |-> 0, style |-> "none", intensity |-> 0]
NoScore == [nan |-> FALSE, num |-> 0, den |-> 1]

----------------------------------------------------------------------------
(* applyRestorationFilter *)

ContrastNoBase(strength) == Mul(Tenths(strength), HALF)

Contrast(strength) == ONE + Mul(Tenths(strength), HALF)

(* the contrast line of one sample *)
ContrastSample(v, strength) ==
  ToUint8Clamp(Min(Num(255), Mul(Num(v) - Num(128), Contrast(strength)) + Num(128)))

BlurSampleTenth(v, strength) ==
  LET blur == Mul(Tenths(strength), 100000)
  IN  ToUint8Clamp(Mul(Num(v), ONE - blur) + Mul(Num(128), blur))

(* the noise-reduction line of one sample *)
BlurSample(v, strength) ==
  LET blur == Mul(Tenths(strength), 200000)
  IN  ToUint8Clamp(Mul(Num(v), ONE - blur) + Mul(Num(128), blur))

RestoreSampleNoBlur(v, strength) == ContrastSample(v, strength)

RestoreSample(v, strength) ==
  IF Tenths(strength) > 300000
  THEN BlurSample(ContrastSample(v, strength), strength)
  ELSE ContrastSample(v, strength)

RestorationFilter(d, strength) ==
  [k \in 1..Len(d) |->
     IF (k - 1) % 4 = 3 THEN d[k] ELSE RestoreSample(d[k], strength)]

----------------------------------------------------------------------------
(* applyStyleTransfer *)

LumaHeavy(r, g, b) == Mul(299000, r) + Mul(587000, g) + Mul(214000, b)

(* 0.299 r + 0.587 g + 0.114 b of three numbers *)
Luma(r, g, b) == Mul(299000, r) + Mul(587000, g) + Mul(114000, b)

(* the colour of one pixel after the switch, as numbers *)
StyleVintageOriginalG(r, g, b, i) ==
  LET r1 == Min(Num(255), Mul(Mul(r, 393000) + Mul(g, 769000) + Mul(b, 189000), i)
                            + Mul(r, ONE - i))
      g1 == Min(Num(255), Mul(Mul(r1, 349000) + Mul(g, 686000) + Mul(b, 168000), i)
                            + Mul(g, ONE - i))
      b1 == Min(Num(255), Mul(Mul(r1, 272000) + Mul(g, 534000) + Mul(b, 131000), i)
                            + Mul(b, ONE - i))
  IN  <<r1, g1, b1>>

StyleVintage(r, g, b, i) ==
  LET r1 == Min(Num(255), Mul(Mul(r, 393000) + Mul(g, 769000) + Mul(b, 189000), i)
                            + Mul(r, ONE - i))
      g1 == Min(Num(255), Mul(Mul(r1, 349000) + Mul(g, 686000) + Mul(b, 168000), i)
                            + Mul(g, ONE - i))
      b1 == Min(Num(255), Mul(Mul(r1, 272000) + Mul(g1, 534000) + Mul(b, 131000), i)
                            + Mul(b, ONE - i))
  IN  <<r1, g1, b1>>

StyleCool(r, g, b, i) ==
  << Mul(r, ONE - Mul(i, 200000)),
     Mul(g, ONE - Mul(i, 100000)),
     Min(Num(255), Mul(b, ONE + Mul(i, 300000))) >>

StyleWarm(r, g, b, i) ==
  << Min(Num(255), Mul(r, ONE + Mul(i, 300000))),
     Min(Num(255), Mul(g, ONE + Mul(i, 100000))),
     Mul(b, ONE - Mul(i, 200000)) >>

StyleVivid(r, g, b, i) ==
  LET gray == Luma(r, g, b)
  IN  << Min(Num(255), gray + Mul(r - gray, ONE + i)),
         Min(Num(255), gray + Mul(g - gray, ONE + i)),
         Min(Num(255), gray + Mul(b - gray, ONE + i)) >>

StyleMonochrome(r, g, b, i) ==
  LET mono == Luma(r, g, b)
  IN  << Mul(mono, ONE - i) + Mul(r, i),
         Mul(mono, ONE - i) + Mul(g, i),
         Mul(mono, ONE - i) + Mul(b, i) >>

StylePixelDefaultMono(r, g, b, style, i) ==
  CASE style = "vintage" -> StyleVintage(r, g, b, i)
    [] style = "cool" -> StyleCool(r, g, b, i)
    [] style = "warm" -> StyleWarm(r, g, b, i)
    [] style = "vivid" -> StyleVivid(r, g, b, i)
    [] OTHER -> StyleMonochrome(r, g, b, i)

StylePixel(r, g, b, style, i) ==
  CASE style = "vintage" -> StyleVintage(r, g, b, i)
    [] style = "cool" -> StyleCool(r, g, b, i)
    [] style = "warm" -> StyleWarm(r, g, b, i)
    [] style = "vivid" -> StyleVivid(r, g, b, i)
    [] style = "monochrome" -> StyleMonochrome(r, g, b, i)
    [] OTHER -> <<r, g, b>>

(* the final clamp and store of one colour sample *)
ClampStore(x) == ToUint8Clamp(Max(0, Min(Num(255), x)))

StyleTransfer(d, style, intensity) ==
  [k \in 1..Len(d) |->
     LET c == (k - 1) % 4
         p == k - c
     IN  IF c = 3 THEN d[k]
         ELSE ClampStore(StylePixel(Num(d[p]), Num(d[p + 1]), Num(d[p + 2]),
                                    style, Tenths(intensity))[c + 1])]

----------------------------------------------------------------------------
(* applyColorization *)

ColorPixelWarmGreenKept(r, g, b, scheme, i) ==
  LET gray == Luma(r, g, b)
  IN  CASE scheme = "natural" ->
             << Mul(gray, ONE + Mul(i, 200000)),
                Mul(gray, ONE + Mul(i, 100000)),
                Mul(gray, ONE - Mul(i, 100000)) >>
        [] scheme = "cool" ->
             << Mul(gray, ONE - Mul(i, 300000)),
                gray,
                Mul(gray, ONE + Mul(i, 400000)) >>
        [] scheme = "warm" ->
             << Mul(gray, ONE + Mul(i, 400000)),
                gray,
                Mul(gray, ONE - Mul(i, 200000)) >>
        [] OTHER -> <<r, g, b>>

ColorPixel(r, g, b, scheme, i) ==
  LET gray == Luma(r, g, b)
  IN  CASE scheme = "natural" ->
             << Mul(gray, ONE + Mul(i, 200000)),
                Mul(gray, ONE + Mul(i, 100000)),
                Mul(gray, ONE - Mul(i, 100000)) >>
        [] scheme = "cool" ->
             << Mul(gray, ONE - Mul(i, 300000)),
                gray,
                Mul(gray, ONE + Mul(i, 400000)) >>
        [] scheme = "warm" ->
             << Mul(gray, ONE + Mul(i, 400000)),
                Mul(gray, ONE + Mul(i, 200000)),
                Mul(gray, ONE - Mul(i, 200000)) >>
        [] OTHER -> <<r, g, b>>

(* as Colorization, but with r, g, b read once, from the first pixel *)
ColorizationHoisted(d, scheme, intensity) ==
  [k \in 1..Len(d) |->
     LET c == (k - 1) % 4
     IN  IF c = 3 THEN d[k]
         ELSE ClampStore(ColorPixel(Num(d[1]), Num(d[2]), Num(d[3]),
                                    scheme, Tenths(intensity))[c + 1])]

Colorization(d, scheme, intensity) ==
  [k \in 1..Len(d) |->
     LET c == (k - 1) % 4
         p == k - c
     IN  IF c = 3 THEN d[k]
         ELSE ClampStore(ColorPixel(Num(d[p]), Num(d[p + 1]), Num(d[p + 2]),
                                    scheme, Tenths(intensity))[c + 1])]

----------------------------------------------------------------------------
(* applySuperResolution *)

NewWidth(w, scale) == w * scale

NewHeightUnscaled(h, scale) == h

NewHeight(h, scale) == h * scale

(* ctx.drawImage(tempCanvas, 0, 0, newWidth, newHeight) with smoothing on:  *)
(* each destination pixel centre is mapped back into the source, clamped   *)
(* to the centres of the edge pixels, and the four nearest source samples  *)
(* are blended by the fractional distances.  Coordinates are in units of   *)
(* 1/(2*scale) of a source pixel.                                          *)
Resample(d, w, h, scale) ==
  LET nw == NewWidth(w, scale)
      nh == NewHeight(h, scale)
      u == 2 * scale
      Coord(x, n) == Max(0, Min((n - 1) * u, 2 * x + 1 - scale))
      Src(sx, sy, c) == At(d, (sy * w + sx) * 4 + c)
  IN  [k \in 1..(4 * nw * nh) |->
         LET c == (k - 1) % 4
             x == ((k - 1) \div 4) % nw
             y == ((k - 1) \div 4) \div nw
             cx == Coord(x, w)
             cy == Coord(y, h)
             x0 == cx \div u
             y0 == cy \div u
             fx == cx % u
             fy == cy % u
             x1 == Min(x0 + 1, w - 1)
             y1 == Min(y0 + 1, h - 1)
             total == (u - fx) * (u - fy) * Src(x0, y0, c)
                      + fx * (u - fy) * Src(x1, y0, c)
                      + (u - fx) * fy * Src(x0, y1, c)
                      + fx * fy * Src(x1, y1, c)
         IN  (2 * total + u * u) \div (2 * u * u)]

sharpenKernel == <<0, -1, 0, -1, 5, -1, 0, -1, 0>>

(* the buffer after the body of the channel loop for i and channel, with   *)
(* the two kernel loops unrolled: p is the place of data[i + channel], and *)
(* the nine reads are at pixelIndex = i + (dy * newWidth + dx) * 4 +       *)
(* channel for dy, dx = -1, 0, 1.  The nine indices increase, so one of    *)
(* them is outside the buffer iff the first or the last is; such a read    *)
(* gives undefined, which makes sum NaN (also under a kernel entry of 0),  *)
(* and NaN is stored as 0.                                                 *)
SharpenChannel(d, i, channel, nw) ==
  LET p == i + channel + 1
      row == nw * 4
      K == sharpenKernel
  IN  IF p - row - 4 < 1 \/ p + row + 4 > Len(d)
      THEN [d EXCEPT ![p] = ToUint8ClampNaN]
      ELSE [d EXCEPT ![p] = Max(0, Min(255,
              K[1] * d[p - row - 4] + K[2] * d[p - row] + K[3] * d[p - row + 4]
              + K[4] * d[p - 4] + K[5] * d[p] + K[6] * d[p + 4]
              + K[7] * d[p + row - 4] + K[8] * d[p + row] + K[9] * d[p + row + 4]))]

SharpenPixel(d, i, nw) ==
  SharpenChannel(SharpenChannel(SharpenChannel(d, i, 0, nw), i, 1, nw), i, 2, nw)

(* the first index of the loops over the pixels *)
LoopStart(w) == w + 4

(* the bound of the loops over the pixels *)
LoopEnd(d, w) == Len(d) - w * 4 - 4

(* the iterations of the loop from index i up to, not including, stop *)
RECURSIVE SharpenRun(_, _, _, _)
SharpenRun(d, i, stop, nw) ==
  IF i < stop THEN SharpenRun(SharpenPixel(d, i, nw), i + 4, stop, nw) ELSE d

(* the loop from index i on, taken in runs of newWidth iterations *)
RECURSIVE SharpenFrom(_, _, _)
SharpenFrom(d, i, nw) ==
  IF i < LoopEnd(d, nw)
  THEN SharpenFrom(SharpenRun(d, i, Min(i + 4 * nw, LoopEnd(d, nw)), nw), i + 4 * nw, nw)
  ELSE d

Sharpen(d, nw) == SharpenFrom(d, LoopStart(nw), nw)

----------------------------------------------------------------------------
(* calculateAttentionScore *)

(* data[k] * 0.299 + data[k+1] * 0.587 + data[k+2] * 0.114, in thousandths *)
LumaAt(d, k) == At(d, k) * 299 + At(d, k + 1) * 587 + At(d, k + 2) * 114

LumaDefined(d, k) == Defined(d, k) /\ Defined(d, k + 1) /\ Defined(d, k + 2)

(* the body of the loop and its i += 4: st holds the loop's variables, the *)
(* index i, whether sum is NaN, sum in thousandths, and count              *)
ScoreStep(d, w, st) ==
  LET i == st.i
      allDefined == /\ LumaDefined(d, i)
                    /\ LumaDefined(d, i - w * 4)
                    /\ LumaDefined(d, i + w * 4)
                    /\ LumaDefined(d, i - 4)
                    /\ LumaDefined(d, i + 4)
  IN  IF allDefined
      THEN [i |-> i + 4, nan |-> st.nan,
            sum |-> st.sum + Abs(4 * LumaAt(d, i) - LumaAt(d, i - w * 4)
                                 - LumaAt(d, i + w * 4)
                                 - LumaAt(d, i - 4) - LumaAt(d, i + 4)),
            count |-> st.count + 1]
      ELSE [i |-> i + 4, nan |-> TRUE, sum |-> st.sum, count |-> st.count + 1]

RECURSIVE ScoreFrom(_, _, _)
ScoreFrom(d, w, st) ==
  IF st.i < LoopEnd(d, w) THEN ScoreFrom(d, w, ScoreStep(d, w, st)) ELSE st

(* the result, as the fraction num/den, or NaN *)
AttentionScore(d, w) ==
  LET st  == ScoreFrom(d, w, [i |-> LoopStart(w), nan |-> FALSE, sum |-> 0, count |-> 0])
      den == st.count * 50 * 1000
  IN  IF st.count > 0
      THEN IF st.nan THEN [nan |-> TRUE, num |-> 0, den |-> 1]
           ELSE IF st.sum < 10 * den THEN [nan |-> FALSE, num |-> st.sum, den |-> den]
           ELSE [nan |-> FALSE, num |-> 10, den |-> 1]
      ELSE [nan |-> FALSE, num |-> 0, den |-> 1]

----------------------------------------------------------------------------
(* The mock generator: generateImageFromPrompt *)

(* strings are sequences of UTF-16 code units: "cat", "logo", "sunset sky" *)
Prompts == { <<99, 97, 116>>,
             <<108, 111, 103, 111>>,
             <<115, 117, 110, 115, 101, 116, 32, 115, 107, 121>> }

Seeds == {-1, 0, 42, 123456}

Creativities == {1, 5, 10}   \* tenths

PLACEHOLDER_IMAGES == << "photo-1541961017774-22349e4a1262",
                         "photo-1518717758536-85ae29035b6d",
                         "photo-1507003211169-0a1dd7228f2d",
                         "photo-1517849845537-4d257902454a",
                         "photo-1546975490-e8b92a360b24",
                         "photo-1552053831-71594a27632d",
                         "photo-1541781774459-bb2af2f05b55",
                         "photo-1583337130417-3346a1be7dee" >>

(* Number.prototype.toString of an integer: an optional '-' and the digits *)
RECURSIVE Digits(_)
Digits(n) == IF n < 10 THEN <<48 + n>> ELSE Digits(n \div 10) \o <<48 + (n % 10)>>

toString(n) == IF n < 0 THEN <<45>> \o Digits(0 - n) ELSE Digits(n)

Two16 == 65536

(* hash = ((hash << 5) - hash) + char; hash = hash & hash                  *)
(* which is 31 * hash + char wrapped to a signed 32-bit integer; the       *)
(* product is taken on the two 16-bit halves of the two's complement       *)
HashStep(hash, char) ==
  LET lo == hash % Two16
      hi == (hash \div Two16) % Two16
      l  == 31 * lo + char
      h  == (31 * hi + (l \div Two16)) % Two16
  IN  IF h >= Two16 \div 2 THEN (h - Two16) * Two16 + (l % Two16)
                            ELSE h * Two16 + (l % Two16)

RECURSIVE HashFrom(_, _, _)
HashFrom(combined, i, hash) ==
  IF i > Len(combined) THEN hash
  ELSE HashFrom(combined, i + 1, HashStep(hash, combined[i]))

Hash(prompt, seed) == HashFrom(prompt \o toString(seed), 1, 0)

(* hash % length, whose sign is the sign of hash *)
IndexSigned(hash, length) ==
  IF hash < 0 THEN 0 - ((length - (hash % length)) % length) ELSE hash % length

(* Math.abs(hash) % length *)
Index(hash, length) ==
  IF hash < 0 THEN (length - (hash % length)) % length ELSE hash % length

(* an array read: undefined outside the array *)
Element(array, index) ==
  IF index + 1 \in DOMAIN array THEN array[index + 1] ELSE "undefined"

generateImageFromPrompt(prompt, seed, creativity) ==
  LET hash  == Hash(prompt, seed)
      index == Index(hash, Len(PLACEHOLDER_IMAGES))
  IN  [prompt |-> prompt, seed |-> seed, creativity |-> creativity,
       hash |-> hash, index |-> index,
       url |-> Element(PLACEHOLDER_IMAGES, index)]

(* the last two calls of generateImageFromPrompt; none yet *)
NoGen == [prompt |-> <<>>, seed |-> 0, creativity |-> 0,
          hash |-> 0, index |-> 0, url |-> ""]

----------------------------------------------------------------------------
(* The text-to-design page: TextToDesignPage and its generateImages *)

(* a string is the sequence of its characters *)
WhiteSpace == {" ", "\n", "\r", "\t"}

RECURSIVE trimStart(_)
trimStart(s) == IF s # <<>> /\ Head(s) \in WhiteSpace THEN trimStart(Tail(s)) ELSE s

RECURSIVE trimEnd(_)
trimEnd(s) ==
  IF s # <<>> /\ s[Len(s)] \in WhiteSpace THEN trimEnd(SubSeq(s, 1, Len(s) - 1)) ELSE s

(* String.prototype.trim *)
trim(s) == trimEnd(trimStart(s))

(* s.split('\n'): the pieces between the line feeds, at least one piece *)
RECURSIVE split(_)
split(s) ==
  IF \E i \in 1..Len(s) : s[i] = "\n"
  THEN LET i == CHOOSE j \in 1..Len(s) : s[j] = "\n" /\ \A h \in 1..(j - 1) : s[h] # "\n"
       IN  <<SubSeq(s, 1, i - 1)>> \o split(SubSeq(s, i + 1, Len(s)))
  ELSE <<s>>

NonBlank(p) == Len(trim(p)) > 0

(* array.slice(0, n) *)
slice(array, n) == SubSeq(array, 1, Min(n, Len(array)))

BatchLimit == 5

PromptsOfUnlimited(batchPrompts) == SelectSeq(split(batchPrompts), NonBlank)

(* batchPrompts.split('\n').filter(p => p.trim().length > 0), and the      *)
(* slice(0, 5) of the loop header                                          *)
PromptsOf(batchPrompts) ==
  slice(SelectSeq(split(batchPrompts), NonBlank), BatchLimit)

(* what the user types into the prompt field *)
PromptTexts == { <<>>, <<" ">>, <<"a">>, <<" ", "b", " ">> }

(* what the user types into the batch field: nothing, blank lines, one     *)
(* line, lines with blank lines between them, and seven lines              *)
BatchTexts ==
  { <<>>,
    <<" ", "\n", " ">>,
    <<"a">>,
    <<"a", "\n", "\n", " ", "b", " ", "\n", "c">>,
    <<"a", "\n", "b", "\n", " ", "\n", "c", "\n", "d", "\n", "e", "\n", "f", "\n", "g">> }

SeedValues == {0, 41}
BatchCounts == {1, 2}
CreativityValues == {5, 10}   \* tenths

(* the local variables of a call of generateImages that has returned *)
NoGenerate == [branch |-> "none", prompts |-> <<>>, allResults |-> 0]

(* the page after its first render; user is the signed-in user or null *)
DesignPage(user) ==
  [user |-> user, prompt |-> <<>>, batchPrompts |-> <<>>, creativity |-> 5,
   seed |-> 0, batchMode |-> FALSE, batchCount |-> 2, generating |-> FALSE,
   results |-> 0, message |-> "",
   call |-> NoGenerate,
   args |-> [batchMode |-> FALSE, prompt |-> <<>>, batchPrompts |-> <<>>, seed |-> 0],
   sent |-> <<>>, pending |-> 0]

(* the body of a POST to /api/generate; batchCount 0: the field is absent *)
BatchRequest(singlePrompt, seed, creativity) ==
  [prompt |-> trim(singlePrompt), seed |-> seed, creativity |-> creativity,
   batch |-> FALSE, batchCount |-> 0]

SingleRequest(prompt, seed, creativity, batchCount) ==
  [prompt |-> trim(prompt), seed |-> seed, creativity |-> creativity,
   batch |-> batchCount > 1, batchCount |-> batchCount]

(* the generate button is disabled *)
GenerateDisabled ==
  design.generating \/ (trim(design.prompt) = <<>> /\ trim(design.batchPrompts) = <<>>)

----------------------------------------------------------------------------
(* The photo-restore page and the enhance page: PhotoRestorePage and       *)
(* EnhanceImagePage.  A file is a positive number; 0 is null, or the empty *)
(* string of a preview.                                                    *)

Files == {1}

StrengthValues == {3, 5}   \* tenths
EnhancementTypes == {"super-resolution", "style-transfer", "colorization"}
UpscaleFactors == {2, 4}
StyleTypes == {"vivid", "vintage"}
ColorSchemes == {"natural", "warm"}

(* the settings after the first render *)
DefaultSettings ==
  [strength |-> 5, enhancementType |-> "super-resolution", upscaleFactor |-> 2,
   styleType |-> "vivid", colorScheme |-> "natural"]

(* what the load callback passes to the filter it calls: the strength to   *)
(* applyRestorationFilter, or by the switch the factor, the style or the   *)
(* scheme; "null" and 0 stand for a value that is not passed               *)
Passed(kind, s) ==
  IF kind = "restore"
  THEN [strength |-> s.strength, type |-> "null", style |-> "null", factor |-> 0]
  ELSE CASE s.enhancementType = "super-resolution" ->
              [strength |-> 0, type |-> s.enhancementType, style |-> "null",
               factor |-> s.upscaleFactor]
         [] s.enhancementType = "style-transfer" ->
              [strength |-> 0, type |-> s.enhancementType, style |-> s.styleType,
               factor |-> 0]
         [] s.enhancementType = "colorization" ->
              [strength |-> 0, type |-> s.enhancementType, style |-> s.colorScheme,
               factor |-> 0]

(* nothing that a filter has processed is on the canvas *)
NotProcessed == [strength |-> 0, type |-> "null", style |-> "null", factor |-> 0]

(* the row that the save inserts; "null" and 0 stand for null or no column *)
Row(kind, s) ==
  IF kind = "restore"
  THEN [restoration_strength |-> s.strength, enhancement_type |-> "null",
        style_applied |-> "null", upscale_factor |-> 0]
  ELSE [restoration_strength |-> 0,
        enhancement_type |-> s.enhancementType,
        style_applied |-> IF s.enhancementType = "style-transfer" THEN s.styleType
                          ELSE IF s.enhancementType = "colorization" THEN s.colorScheme
                          ELSE "null",
        upscale_factor |-> IF s.enhancementType = "super-resolution"
                           THEN s.upscaleFactor ELSE 0]

NoRow == [restoration_strength |-> 0, enhancement_type |-> "null",
          style_applied |-> "null", upscale_factor |-> 0]

(* no save is under way; its local variables otherwise: the settings the   *)
(* call has read, what the canvas held when the blob was taken, the        *)
(* uploads made so far, and the row of the insert that is awaited          *)
NoSave == [pc |-> "idle", settings |-> DefaultSettings, canvas |-> NotProcessed,
           steps |-> <<>>, row |-> NoRow]

(* the page after its first render.  reading: the file a FileReader is     *)
(* reading; loading: an Image is loading, src: the preview it was given;   *)
(* canvas: what is on the canvas; timers: the pending form resets;         *)
(* sinceSave: handleImageSelect has set the image and its preview after    *)
(* the last save that succeeded                                            *)
StudioPage(kind, user) ==
  [kind |-> kind, user |-> user,
   originalImage |-> 0, originalPreview |-> 0, resultPreview |-> 0,
   settings |-> DefaultSettings,
   processing |-> FALSE, saving |-> FALSE, message |-> "",
   reading |-> 0, loading |-> FALSE, src |-> 0,
   canvas |-> NotProcessed,
   save |-> NoSave, timers |-> 0, sinceSave |-> FALSE]

NoStudio == StudioPage("restore", TRUE)

MaxTimers == 1

(* the request bodies sent to the generate route: prompts as character     *)
(* codes (none, a blank one, "cat", " cat "), and batch counts below, at    *)
(* and above the limit of the handler                                      *)
RoutePrompts == { <<>>, <<32>>, <<99, 97, 116>>, <<32, 99, 97, 116, 32>> }
RouteBatchCounts == {2, 4, 5}
WhiteSpaceCodes == {9, 10, 32}

RECURSIVE trimCodes(_)
trimCodes(p) ==
  IF p = <<>> THEN p
  ELSE IF Head(p) \in WhiteSpaceCodes THEN trimCodes(Tail(p))
  ELSE IF p[Len(p)] \in WhiteSpaceCodes THEN trimCodes(SubSeq(p, 1, Len(p) - 1))
  ELSE p

(* const actualBatchCount = batch ? Math.min(batchCount, 4) : 1 *)
RouteBatchLimit == 4
actualBatchCount(batch, batchCount) ==
  IF batch THEN Min(batchCount, RouteBatchLimit) ELSE 1

(* no request at the route.  Of a request: whether it has a session, its   *)
(* body, the loop variable i, the rows it has inserted, the results array, *)
(* and the status and results of its response                              *)
NoRoute ==
  [pc |-> "idle", session |-> FALSE, prompt |-> <<>>, seed |-> 0,
   creativity |-> 0, batch |-> FALSE, batchCount |-> 1,
   i |-> 0, rows |-> <<>>, results |-> <<>>, status |-> 0, response |-> <<>>]

(* no work on the pages and no request at the route *)
PagesIdle ==
  /\ design = DesignPage(TRUE)
  /\ studio = NoStudio
  /\ route = NoRoute

TypeOK ==
  /\ width \in Nat
  /\ height \in Nat
  /\ Len(data) = 4 * width * height
  /\ ctx \in BOOLEAN
  /\ pc \in {"drawn", "filtered", "scored", "thrown"}

(* the canvas after an image was drawn onto it, which gave it its size *)
Init ==
  /\ width \in 1..MaxW
  /\ height \in 1..MaxH
  /\ data \in Images(width, height)
  /\ ctx = TRUE
  /\ pc = "drawn"
  /\ op = NoCall
  /\ before = [width |-> width, height |-> height, data |-> data]
  /\ resampled = <<>>
  /\ score = NoScore
  /\ gen = NoGen
  /\ prev = NoGen
  /\ PagesIdle

(* canvas.getContext('2d') gave a context and getImageData does not throw: *)
(* it throws an IndexSizeError for a canvas of width or height 0           *)
Runs == ctx /\ width > 0 /\ height > 0

(* where a call that would end at label ends: a missing context makes the  *)
(* function return at once, a canvas of no pixels makes getImageData throw *)
CallEnd(label) == IF ctx /\ (width = 0 \/ height = 0) THEN "thrown" ELSE label

ApplyRestorationFilter ==
  /\ pc = "drawn"
  /\ \E strength \in Strengths :
       /\ data' = IF Runs THEN RestorationFilter(data, strength) ELSE data
       /\ op' = [NoCall EXCEPT !.name = "applyRestorationFilter", !.strength = strength]
  /\ pc' = CallEnd("filtered")
  /\ UNCHANGED <<width, height, ctx, before, resampled, score, gen, prev, pages>>

ApplyStyleTransfer ==
  /\ pc = "drawn"
  /\ \E style \in Styles, intensity \in Intensities :
       /\ data' = IF Runs THEN StyleTransfer(data, style, intensity) ELSE data
       /\ op' = [NoCall EXCEPT !.name = "applyStyleTransfer", !.style = style,
                               !.intensity = intensity]
  /\ pc' = CallEnd("filtered")
  /\ UNCHANGED <<width, height, ctx, before, resampled, score, gen, prev, pages>>

ApplyColorization ==
  /\ pc = "drawn"
  /\ \E scheme \in Schemes, intensity \in Intensities :
       /\ data' = IF Runs THEN Colorization(data, scheme, intensity) ELSE data
       /\ op' = [NoCall EXCEPT !.name = "applyColorization", !.style = scheme,
                               !.intensity = intensity]
  /\ pc' = CallEnd("filtered")
  /\ UNCHANGED <<width, height, ctx, before, resampled, score, gen, prev, pages>>

ApplySuperResolution ==
  /\ pc = "drawn"
  /\ \E scale \in 1..MaxScale :
       /\ width' = IF Runs THEN NewWidth(width, scale) ELSE width
       /\ height' = IF Runs THEN NewHeight(height, scale) ELSE height
       /\ resampled' = IF Runs THEN Resample(data, width, height, scale) ELSE resampled
       /\ op' = [NoCall EXCEPT !.name = "applySuperResolution", !.scale = scale]
  /\ data' = IF Runs THEN Sharpen(resampled', width') ELSE data
  /\ pc' = CallEnd("filtered")
  /\ UNCHANGED <<ctx, before, score, gen, prev, pages>>

CalculateAttentionScore ==
  /\ pc \in {"drawn", "filtered"}
  /\ score' = IF Runs THEN AttentionScore(data, width) ELSE NoScore
  /\ pc' = CallEnd("scored")
  /\ UNCHANGED <<width, height, data, ctx, op, before, resampled, gen, prev, pages>>

Next ==
  \/ ApplyRestorationFilter
  \/ ApplyStyleTransfer
  \/ ApplyColorization
  \/ ApplySuperResolution
  \/ CalculateAttentionScore

Spec == Init /\ [][Next]_vars

(* the library called on any canvas: its 2d context may be missing, and it *)
(* may have no pixels                                                      *)
InitCtx ==
  /\ width \in 0..MaxW
  /\ height \in 0..MaxH
  /\ data \in Images(width, height)
  /\ ctx \in BOOLEAN
  /\ pc = "drawn"
  /\ op = NoCall
  /\ before = [width |-> width, height |-> height, data |-> data]
  /\ resampled = <<>>
  /\ score = NoScore
  /\ gen = NoGen
  /\ prev = NoGen
  /\ PagesIdle

SpecCtx == InitCtx /\ [][Next]_vars

(* the two example images: 4 x 4 pixels of mid-gray, and a 2 x 2           *)
(* checkerboard of black and white                                         *)
Gray4x4 == [k \in 1..64 |-> IF (k - 1) % 4 = 3 THEN 255 ELSE 128]

Checkerboard == << 0, 0, 0, 255,  255, 255, 255, 255,
                   255, 255, 255, 255,  0, 0, 0, 255 >>

InitScenario ==
  /\ \/ width = 4 /\ height = 4 /\ data = Gray4x4
     \/ width = 2 /\ height = 2 /\ data = Checkerboard
  /\ ctx = TRUE
  /\ pc = "drawn"
  /\ op = NoCall
  /\ before = [width |-> width, height |-> height, data |-> data]
  /\ resampled = <<>>
  /\ score = NoScore
  /\ gen = NoGen
  /\ prev = NoGen
  /\ PagesIdle

SpecScenario == InitScenario /\ [][Next]_vars

(* the style and the scheme are strings: a caller may pass any name *)
OtherNames == {"sketch"}

ApplyStyleTransferOther ==
  /\ pc = "drawn"
  /\ \E style \in OtherNames, intensity \in Intensities :
       /\ data' = IF Runs THEN StyleTransfer(data, style, intensity) ELSE data
       /\ op' = [NoCall EXCEPT !.name = "applyStyleTransfer", !.style = style,
                               !.intensity = intensity]
  /\ pc' = CallEnd("filtered")
  /\ UNCHANGED <<width, height, ctx, before, resampled, score, gen, prev, pages>>

ApplyColorizationOther ==
  /\ pc = "drawn"
  /\ \E scheme \in OtherNames, intensity \in Intensities :
       /\ data' = IF Runs THEN Colorization(data, scheme, intensity) ELSE data
       /\ op' = [NoCall EXCEPT !.name = "applyColorization", !.style = scheme,
                               !.intensity = intensity]
  /\ pc' = CallEnd("filtered")
  /\ UNCHANGED <<width, height, ctx, before, resampled, score, gen, prev, pages>>

NextNames ==
  \/ Next
  \/ ApplyStyleTransferOther
  \/ ApplyColorizationOther

SpecNames == Init /\ [][NextNames]_vars

(* the generate route: one canvas state, and calls of the mock generator *)
InitGen ==
  /\ width = 1 /\ height = 1 /\ data = <<0, 0, 0, 255>>
  /\ ctx = TRUE
  /\ pc = "drawn"
  /\ op = NoCall
  /\ before = [width |-> width, height |-> height, data |-> data]
  /\ resampled = <<>>
  /\ score = NoScore
  /\ gen = NoGen
  /\ prev = NoGen
  /\ PagesIdle

GenerateImage ==
  /\ \E prompt \in Prompts, seed \in Seeds, creativity \in Creativities :
       gen' = generateImageFromPrompt(prompt, seed, creativity)
  /\ prev' = gen
  /\ UNCHANGED <<width, height, data, ctx, pc, op, before, resampled, score, pages>>

NextGen == GenerateImage

SpecGen == InitGen /\ [][NextGen]_vars

----------------------------------------------------------------------------
(* The text-to-design page *)

canvas == <<width, height, data, ctx, pc, op, before, resampled, score>>

InitDesign ==
  /\ width = 1 /\ height = 1 /\ data = <<0, 0, 0, 255>>
  /\ ctx = TRUE
  /\ pc = "drawn"
  /\ op = NoCall
  /\ before = [width |-> width, height |-> height, data |-> data]
  /\ resampled = <<>>
  /\ score = NoScore
  /\ gen = NoGen
  /\ prev = NoGen
  /\ \E user \in BOOLEAN : design = DesignPage(user)
  /\ studio = NoStudio
  /\ route = NoRoute

(* the prompt field is rendered in single mode, the batch field in batch   *)
(* mode, the settings in single mode; every control is disabled while      *)
(* generating                                                              *)
SetPrompt ==
  /\ ~design.generating /\ ~design.batchMode
  /\ \E text \in PromptTexts : design' = [design EXCEPT !.prompt = text]
  /\ UNCHANGED <<canvas, gen, prev, studio, route>>

SetBatchPrompts ==
  /\ ~design.generating /\ design.batchMode
  /\ \E text \in BatchTexts : design' = [design EXCEPT !.batchPrompts = text]
  /\ UNCHANGED <<canvas, gen, prev, studio, route>>

SetBatchMode ==
  /\ ~design.generating
  /\ design' = [design EXCEPT !.batchMode = ~design.batchMode]
  /\ UNCHANGED <<canvas, gen, prev, studio, route>>

SetBatchCount ==
  /\ ~design.generating /\ ~design.batchMode
  /\ \E n \in BatchCounts : design' = [design EXCEPT !.batchCount = n]
  /\ UNCHANGED <<canvas, gen, prev, studio, route>>

SetCreativity ==
  /\ ~design.generating /\ ~design.batchMode
  /\ \E c \in CreativityValues : design' = [design EXCEPT !.creativity = c]
  /\ UNCHANGED <<canvas, gen, prev, studio, route>>

SetSeed ==
  /\ ~design.generating
  /\ \E seed \in SeedValues : design' = [design EXCEPT !.seed = seed]
  /\ UNCHANGED <<canvas, gen, prev, studio, route>>

(* the end of generateImages after its last response *)
Generated(d, count) ==
  [d EXCEPT !.results = count, !.message = "Generated", !.generating = FALSE,
            !.call = NoGenerate, !.pending = 0]

(* the catch and finally blocks *)
GenerationFailed(d) ==
  [d EXCEPT !.message = "failed", !.generating = FALSE,
            !.call = NoGenerate, !.pending = 0]

(* the head of the for loop: the fetch of the next prompt, with            *)
(* seed + allResults.length, or the statements after the loop              *)
BatchLoop(d) ==
  LET k == d.call.allResults
  IN  IF k < Len(d.call.prompts)
      THEN [d EXCEPT !.sent = Append(@, BatchRequest(d.call.prompts[k + 1],
                                                     d.args.seed + k, d.creativity)),
                     !.pending = 1]
      ELSE Generated(d, k)

(* a click on the generate button: generateImages up to its first await *)
GenerateImages ==
  /\ ~GenerateDisabled
  /\ IF (trim(design.prompt) = <<>> /\ trim(design.batchPrompts) = <<>>) \/ ~design.user
     THEN UNCHANGED design
     ELSE LET batch == design.batchMode /\ trim(design.batchPrompts) # <<>>
              started ==
                [design EXCEPT
                   !.generating = TRUE, !.message = "Generating", !.results = 0,
                   !.args = [batchMode |-> design.batchMode, prompt |-> design.prompt,
                             batchPrompts |-> design.batchPrompts, seed |-> design.seed],
                   !.sent = <<>>, !.pending = 0]
          IN  design' =
                IF batch
                THEN BatchLoop([started EXCEPT
                                  !.call = [branch |-> "batch",
                                            prompts |-> PromptsOf(design.batchPrompts),
                                            allResults |-> 0]])
                ELSE [started EXCEPT
                        !.call = [branch |-> "single", prompts |-> <<>>, allResults |-> 0],
                        !.sent = <<SingleRequest(design.prompt, design.seed,
                                                 design.creativity, design.batchCount)>>,
                        !.pending = 1]
  /\ UNCHANGED <<canvas, gen, prev, studio, route>>

(* the awaited fetch settles: a response that is ok, a response that is    *)
(* not, or a rejection; generateImages runs on to its next await or its end *)
FetchSettles ==
  /\ design.pending = 1
  /\ \E outcome \in {"ok", "not ok", "rejected"} :
       design' =
         IF outcome # "ok" THEN GenerationFailed(design)
         ELSE IF design.call.branch = "batch"
              THEN BatchLoop([design EXCEPT !.call.allResults = @ + 1])
              ELSE Generated(design, IF design.batchCount > 1
                                     THEN Min(design.batchCount, 4) ELSE 1)
  /\ UNCHANGED <<canvas, gen, prev, studio, route>>

NextDesign ==
  \/ SetPrompt
  \/ SetBatchPrompts
  \/ SetBatchMode
  \/ SetBatchCount
  \/ SetCreativity
  \/ SetSeed
  \/ GenerateImages
  \/ FetchSettles

SpecDesign == InitDesign /\ [][NextDesign]_vars

----------------------------------------------------------------------------
(* The photo-restore and enhance pages *)

InitStudio ==
  /\ width = 1 /\ height = 1 /\ data = <<0, 0, 0, 255>>
  /\ ctx = TRUE
  /\ pc = "drawn"
  /\ op = NoCall
  /\ before = [width |-> width, height |-> height, data |-> data]
  /\ resampled = <<>>
  /\ score = NoScore
  /\ gen = NoGen
  /\ prev = NoGen
  /\ design = DesignPage(TRUE)
  /\ \E kind \in {"restore", "enhance"}, user \in BOOLEAN :
       studio = StudioPage(kind, user)
  /\ route = NoRoute

(* every control but the save button is disabled while processing or saving *)
ControlsDisabled == studio.processing \/ studio.saving

(* handleImageSelect up to its await: one FileReader at a time here *)
SelectImage ==
  /\ ~ControlsDisabled
  /\ studio.reading = 0
  /\ \E file \in Files :
       studio' = [studio EXCEPT !.originalImage = file, !.reading = file]
  /\ UNCHANGED <<canvas, gen, prev, design, route>>

(* fileToDataURL settles, and handleImageSelect runs to its end *)
ReadSettles ==
  /\ studio.reading # 0
  /\ \E outcome \in {"ok", "failed"} :
       studio' = IF outcome = "ok"
                 THEN [studio EXCEPT !.originalPreview = studio.reading,
                                     !.resultPreview = 0, !.message = "",
                                     !.reading = 0, !.sinceSave = TRUE]
                 ELSE [studio EXCEPT !.message = "Error loading image",
                                     !.reading = 0]
  /\ UNCHANGED <<canvas, gen, prev, design, route>>

(* the settings are rendered once an image is selected *)
SetRestorationStrength ==
  /\ ~ControlsDisabled /\ studio.originalImage # 0 /\ studio.kind = "restore"
  /\ \E v \in StrengthValues : studio' = [studio EXCEPT !.settings.strength = v]
  /\ UNCHANGED <<canvas, gen, prev, design, route>>

SetEnhancementType ==
  /\ ~ControlsDisabled /\ studio.originalImage # 0 /\ studio.kind = "enhance"
  /\ \E v \in EnhancementTypes :
       studio' = [studio EXCEPT !.settings.enhancementType = v]
  /\ UNCHANGED <<canvas, gen, prev, design, route>>

SetUpscaleFactor ==
  /\ ~ControlsDisabled /\ studio.originalImage # 0 /\ studio.kind = "enhance"
  /\ studio.settings.enhancementType = "super-resolution"
  /\ \E v \in UpscaleFactors : studio' = [studio EXCEPT !.settings.upscaleFactor = v]
  /\ UNCHANGED <<canvas, gen, prev, design, route>>

SetStyleType ==
  /\ ~ControlsDisabled /\ studio.originalImage # 0 /\ studio.kind = "enhance"
  /\ studio.settings.enhancementType = "style-transfer"
  /\ \E v \in StyleTypes : studio' = [studio EXCEPT !.settings.styleType = v]
  /\ UNCHANGED <<canvas, gen, prev, design, route>>

SetColorScheme ==
  /\ ~ControlsDisabled /\ studio.originalImage # 0 /\ studio.kind = "enhance"
  /\ studio.settings.enhancementType = "colorization"
  /\ \E v \in ColorSchemes : studio' = [studio EXCEPT !.settings.colorScheme = v]
  /\ UNCHANGED <<canvas, gen, prev, design, route>>

(* a click on the process button: processRestoration or processEnhancement *)
(* up to img.src = originalPreview                                         *)
Process ==
  /\ ~ControlsDisabled /\ studio.originalImage # 0
  /\ studio' = [studio EXCEPT !.processing = TRUE, !.message = "Processing",
                              !.loading = TRUE, !.src = studio.originalPreview]
  /\ UNCHANGED <<canvas, gen, prev, design, route>>

(* img.onload runs to its end *)
ImageLoads ==
  /\ studio.loading /\ studio.src # 0
  /\ studio' = [studio EXCEPT !.canvas = Passed(studio.kind, studio.settings),
                              !.resultPreview = studio.src,
                              !.message = "complete", !.processing = FALSE,
                              !.loading = FALSE]
  /\ UNCHANGED <<canvas, gen, prev, design, route>>

(* the image does not load (an empty src, or a file that does not decode): *)
(* an error event, for which there is no handler                           *)
ImageLoadFails ==
  /\ studio.loading
  /\ studio' = [studio EXCEPT !.loading = FALSE]
  /\ UNCHANGED <<canvas, gen, prev, design, route>>

(* img.onload throws after it has drawn the image (getImageData or         *)
(* toDataURL fails): the exception leaves the callback                     *)
LoadCallbackThrows ==
  /\ studio.loading /\ studio.src # 0
  /\ studio' = [studio EXCEPT !.canvas = NotProcessed, !.loading = FALSE]
  /\ UNCHANGED <<canvas, gen, prev, design, route>>

(* a click on the save button, rendered when there is a result preview:    *)
(* saveRestoration or saveEnhancement up to its first await                *)
Save ==
  /\ studio.resultPreview # 0 /\ ~studio.saving
  /\ studio.timers < MaxTimers
  /\ IF ~studio.user \/ studio.originalImage = 0
     THEN UNCHANGED studio
     ELSE studio' = [studio EXCEPT
                       !.saving = TRUE, !.message = "Saving",
                       !.save = [pc |-> "toBlob", settings |-> studio.settings,
                                 canvas |-> studio.canvas, steps |-> <<>>,
                                 row |-> NoRow]]
  /\ UNCHANGED <<canvas, gen, prev, design, route>>

SaveFailedKeepsSaving(st) ==
  [st EXCEPT !.save = NoSave, !.message = "Error saving"]

(* the catch and finally blocks of the save *)
SaveFailed(st) ==
  [st EXCEPT !.save = NoSave, !.message = "Error saving", !.saving = FALSE]

(* the statements after the insert, and the finally block *)
SaveSucceeded(st) ==
  [st EXCEPT !.save = NoSave, !.message = "saved", !.timers = @ + 1,
             !.saving = FALSE, !.sinceSave = FALSE]

(* the awaited step of the save settles, and the save runs on to its next  *)
(* await or to its end: toBlob, the upload of the original, the upload of  *)
(* the result, the insert                                                  *)
SaveSettles ==
  /\ studio.save.pc # "idle"
  /\ \E outcome \in {"ok", "failed"} :
       studio' =
         CASE studio.save.pc = "toBlob" ->
                [studio EXCEPT !.save.pc = "uploadOriginal"]
           [] studio.save.pc = "uploadOriginal" ->
                IF outcome = "ok"
                THEN [studio EXCEPT !.save.steps = Append(@, "uploadOriginal ok"),
                                    !.save.pc = "uploadResult"]
                ELSE SaveFailed(studio)
           [] studio.save.pc = "uploadResult" ->
                IF outcome = "ok"
                THEN [studio EXCEPT
                        !.save.steps = Append(@, "uploadResult ok"),
                        !.save.row = Row(studio.kind, studio.save.settings),
                        !.save.pc = "insert"]
                ELSE SaveFailed(studio)
           [] studio.save.pc = "insert" ->
                IF outcome = "ok" THEN SaveSucceeded(studio)
                ELSE SaveFailed(studio)
  /\ UNCHANGED <<canvas, gen, prev, design, route>>

(* the callback of the setTimeout of a save that succeeded *)
ResetTimerFires ==
  /\ studio.timers > 0
  /\ studio' = [studio EXCEPT !.originalImage = 0, !.originalPreview = 0,
                              !.resultPreview = 0, !.message = "",
                              !.timers = @ - 1]
  /\ UNCHANGED <<canvas, gen, prev, design, route>>

ImageLoadSettles == ImageLoads \/ ImageLoadFails \/ LoadCallbackThrows

NextStudio ==
  \/ SelectImage
  \/ ReadSettles
  \/ SetRestorationStrength
  \/ SetEnhancementType
  \/ SetUpscaleFactor
  \/ SetStyleType
  \/ SetColorScheme
  \/ Process
  \/ ImageLoads
  \/ ImageLoadFails
  \/ LoadCallbackThrows
  \/ Save
  \/ SaveSettles
  \/ ResetTimerFires

SpecStudio == InitStudio /\ [][NextStudio]_vars

(* the browser settles every load, read, request and timer *)
SpecStudioLive ==
  /\ InitStudio /\ [][NextStudio]_vars
  /\ WF_vars(ImageLoadSettles)
  /\ WF_vars(ReadSettles)
  /\ WF_vars(SaveSettles)
  /\ WF_vars(ResetTimerFires)

----------------------------------------------------------------------------
(* The generate route: POST *)

InitRoute ==
  /\ width = 1 /\ height = 1 /\ data = <<0, 0, 0, 255>>
  /\ ctx = TRUE
  /\ pc = "drawn"
  /\ op = NoCall
  /\ before = [width |-> width, height |-> height, data |-> data]
  /\ resampled = <<>>
  /\ score = NoScore
  /\ gen = NoGen
  /\ prev = NoGen
  /\ design = DesignPage(TRUE)
  /\ studio = NoStudio
  /\ route = NoRoute

(* a request arrives, one at a time: POST up to await getSession() *)
RouteRequest ==
  /\ route.pc \in {"idle", "responded"}
  /\ \E session \in BOOLEAN, prompt \in RoutePrompts, seed \in SeedValues,
        creativity \in CreativityValues, batch \in BOOLEAN, batchCount \in RouteBatchCounts :
       route' = [NoRoute EXCEPT !.pc = "getSession", !.session = session,
                                !.prompt = prompt, !.seed = seed,
                                !.creativity = creativity, !.batch = batch,
                                !.batchCount = batchCount]
  /\ UNCHANGED <<canvas, gen, prev, design, studio>>

(* return NextResponse.json(..., { status }) *)
Respond(r, status) == [r EXCEPT !.pc = "responded", !.status = status]

(* the head of the for loop, and the response after it *)
LoopHead(r) ==
  IF r.i < actualBatchCount(r.batch, r.batchCount)
  THEN [r EXCEPT !.pc = "insert"]
  ELSE [Respond(r, 200) EXCEPT
          !.response = IF r.batch THEN r.results ELSE <<r.results[1]>>]

(* getSession settles; the handler runs on to await request.json() *)
SessionSettles ==
  /\ route.pc = "getSession"
  /\ \E outcome \in {"ok", "throws"} :
       route' = IF outcome = "throws" THEN Respond(route, 500)
                ELSE IF ~route.session THEN Respond(route, 401)
                ELSE [route EXCEPT !.pc = "json"]
  /\ UNCHANGED <<canvas, gen, prev, design, studio>>

(* request.json() settles; the handler runs on to the awaited delay *)
BodySettles ==
  /\ route.pc = "json"
  /\ \E outcome \in {"ok", "throws"} :
       route' = IF outcome = "throws" THEN Respond(route, 500)
                ELSE IF Len(trimCodes(route.prompt)) = 0 THEN Respond(route, 400)
                ELSE [route EXCEPT !.pc = "delay"]
  /\ UNCHANGED <<canvas, gen, prev, design, studio>>

(* the delay ends; the handler runs on to the first insert *)
DelayEnds ==
  /\ route.pc = "delay"
  /\ route' = LoopHead([route EXCEPT !.i = 0, !.results = <<>>])
  /\ UNCHANGED <<canvas, gen, prev, design, studio>>

(* the row of iteration i; its attention score is random and not held *)
RouteRow(r) ==
  LET currentSeed == r.seed + r.i
  IN  [input_prompt |-> trimCodes(r.prompt),
       output_image_url |->
         generateImageFromPrompt(r.prompt, currentSeed, r.creativity).url,
       seed_value |-> currentSeed, creativity_level |-> r.creativity]

(* the result pushed for a row *)
RouteResult(row) ==
  [imageUrl |-> row.output_image_url, seed |-> row.seed_value,
   prompt |-> row.input_prompt]

(* the insert settles: the row is stored and the loop goes on, or the      *)
(* database reports an error, or the call throws                           *)
InsertSettles ==
  /\ route.pc = "insert"
  /\ \E outcome \in {"ok", "error", "throws"} :
       route' = IF outcome = "ok"
                THEN LoopHead([route EXCEPT
                                 !.rows = Append(@, RouteRow(route)),
                                 !.results = Append(@, RouteResult(RouteRow(route))),
                                 !.i = @ + 1])
                ELSE Respond(route, 500)
  /\ UNCHANGED <<canvas, gen, prev, design, studio>>

NextRoute ==
  \/ RouteRequest
  \/ SessionSettles
  \/ BodySettles
  \/ DelayEnds
  \/ InsertSettles

SpecRoute == InitRoute /\ [][NextRoute]_vars

----------------------------------------------------------------------------
(* Properties *)

FilterNames == {"applyRestorationFilter", "applySuperResolution",
                "applyStyleTransfer", "applyColorization"}

(* the arguments of the last call lie in their documented ranges *)
ParamInRange ==
  /\ op.strength \in 0..10
  /\ op.intensity \in 0..10
  /\ op.name = "applySuperResolution" => op.scale >= 1

(* every pixel of d has the colour and alpha of its first pixel *)
Uniform(d) == \A k \in 1..Len(d) : d[k] = d[((k - 1) % 4) + 1]

(* sample index k (1-based) of a w x h buffer lies in the outer 1-pixel ring *)
InRing(k, w, h) ==
  LET x == ((k - 1) \div 4) % w
      y == ((k - 1) \div 4) \div w
  IN  x = 0 \/ x = w - 1 \/ y = 0 \/ y = h - 1

(* a tenths argument clamped into [0,1] *)
Clamp01(t) == Max(0, Min(10, t))

(* C1: after a buffer-writing filter has returned, with arguments in their *)
(* ranges, every sample of the buffer is an integer in [0,255].            *)
C1_SamplesInRange ==
  (op.name \in FilterNames /\ ParamInRange) =>
    \A k \in 1..Len(data) : data[k] \in 0..255

(* C1 witness: the restoration filter at strength 0.3 has computed a       *)
(* negative value for a sample that was 0, and the warm style at intensity *)
(* 1 a value above 255 for a sample that was 200.                          *)
C1_Witness ==
  \/ /\ op.name = "applyRestorationFilter" /\ op.strength = 3
     /\ \E k \in 1..Len(data) : before.data[k] = 0 /\ data[k] = 0
  \/ /\ op.name = "applyStyleTransfer" /\ op.style = "warm" /\ op.intensity = 10
     /\ \E k \in 1..Len(data) : before.data[k] = 200 /\ data[k] = 255

(* C2: calculateAttentionScore returns a number that is not NaN, is        *)
(* non-negative and is at most 10.                                         *)
C2_ScoreInRange ==
  pc = "scored" =>
    /\ ~score.nan
    /\ 0 <= score.num
    /\ score.num <= 10 * score.den

(* C3: calculateAttentionScore returns exactly 0 for a buffer whose pixels *)
(* all have the same colour.                                               *)
C3_UniformScoreZero ==
  (pc = "scored" /\ Uniform(data)) => (~score.nan /\ score.num = 0)

(* C4: calculateAttentionScore returns 0 whenever width < 3 or height < 3. *)
C4_NoInteriorScoreZero ==
  (pc = "scored" /\ (width < 3 \/ height < 3)) => (~score.nan /\ score.num = 0)

(* C5: applyStyleTransfer with intensity 0 leaves every sample unchanged,  *)
(* for each of the five styles.                                            *)
C5_StyleZeroIdentity ==
  (op.name = "applyStyleTransfer" /\ op.intensity = 0) => data = before.data

(* C6: applyRestorationFilter with strength 0 leaves every sample          *)
(* unchanged.                                                              *)
C6_RestoreZeroIdentity ==
  (op.name = "applyRestorationFilter" /\ op.strength = 0) => data = before.data

(* C6 witness: the filter has run at strength 0 on an image that holds a   *)
(* coloured pixel.                                                         *)
C6_Witness ==
  /\ pc = "filtered"
  /\ op.name = "applyRestorationFilter" /\ op.strength = 0
  /\ \E k \in 1..Len(data) : before.data[k] = 200

(* C7: after the sharpening pass every pixel of the outer 1-pixel ring of  *)
(* the upscaled image has the value it had after resampling.               *)
C7_RingUnsharpened ==
  op.name = "applySuperResolution" =>
    \A k \in 1..Len(data) : InRing(k, width, height) => data[k] = resampled[k]

(* C8: the sharpening pass never changes an alpha sample.                  *)
C8_AlphaUnsharpened ==
  op.name = "applySuperResolution" =>
    \A k \in 1..Len(data) : (k - 1) % 4 = 3 => data[k] = resampled[k]

(* C9: applySuperResolution on a width x height image with integer scale   *)
(* >= 1 leaves a canvas of width*scale by height*scale pixels and a buffer *)
(* of width*scale*height*scale*4 samples.                                  *)
C9_UpscaledSize ==
  op.name = "applySuperResolution" =>
    /\ width = before.width * op.scale
    /\ height = before.height * op.scale
    /\ Len(data) = before.width * op.scale * before.height * op.scale * 4
    /\ Len(resampled) = Len(data)

(* C9 witness: a 2 x 1 image has been upscaled by 2.                       *)
C9_Witness ==
  /\ op.name = "applySuperResolution" /\ op.scale = 2
  /\ before.width = 2 /\ before.height = 1
  /\ width = 4 /\ height = 2 /\ Len(data) = 32

(* C10: a strength or intensity outside [0,1] is clamped before use: the   *)
(* output equals the output for the nearest value in [0,1].                *)
C10_ParamClamped ==
  /\ op.name = "applyRestorationFilter" =>
       data = RestorationFilter(before.data, Clamp01(op.strength))
  /\ op.name = "applyStyleTransfer" =>
       data = StyleTransfer(before.data, op.style, Clamp01(op.intensity))
  /\ op.name = "applyColorization" =>
       data = Colorization(before.data, op.style, Clamp01(op.intensity))


(* C11: a call on a canvas without a buffer (no 2d context) or with a      *)
(* zero-sized buffer ends in an error; it is never silently accepted.      *)
C11_InvalidRejected ==
  (pc # "drawn" /\ (~ctx \/ before.width = 0 \/ before.height = 0)) => pc = "thrown"

(* the warm colorization at intensity 0.5 has run on the mid-gray image *)
WarmOnGray ==
  /\ op.name = "applyColorization" /\ op.style = "warm" /\ op.intensity = 5
  /\ before.data = Gray4x4
  /\ pc = "filtered"

(* C12 as stated: warm colorization at intensity 0.5 of the 4 x 4 mid-gray *)
(* image gives equal pixels with R > 128, B < 128 and G = 128.             *)
C12_WarmGrayGreenKept ==
  WarmOnGray =>
    /\ Uniform(data)
    /\ data[1] > 128 /\ data[3] < 128
    /\ data[2] = 128

(* C12 amended: warm colorization at intensity 0.5 of the 4 x 4 mid-gray   *)
(* image gives equal pixels (154,141,115,255): R > 128 and B < 128, and G  *)
(* is raised too, to 141.                                                  *)
C12_WarmGray ==
  WarmOnGray =>
    /\ Uniform(data)
    /\ data[1] = 154 /\ data[2] = 141 /\ data[3] = 115 /\ data[4] = 255

(* C12 witness: that call has been made on that image.                     *)
C12_Witness == WarmOnGray /\ Len(data) = 64

(* the restoration filter at strength 1.0 has run on the checkerboard *)
RestoreOnCheckerboard ==
  /\ op.name = "applyRestorationFilter" /\ op.strength = 10
  /\ before.data = Checkerboard
  /\ pc = "filtered"

(* C13 as stated: restoration at strength 1.0 of the checkerboard leaves   *)
(* the colour samples of black pixels at 0 and those of white pixels at    *)
(* 255.                                                                    *)
C13_CheckerboardKept ==
  RestoreOnCheckerboard =>
    \A k \in 1..16 : (k - 1) % 4 # 3 => data[k] = Checkerboard[k]

(* C13 amended: restoration at strength 1.0 of the checkerboard gives the  *)
(* colour samples of black pixels the value 26 and those of white pixels   *)
(* the value 230 (0 and 255 after the contrast step, then blended towards  *)
(* 128 by the noise-reduction step); alpha stays 255.                      *)
C13_Checkerboard ==
  RestoreOnCheckerboard =>
    \A k \in 1..16 :
      data[k] = IF (k - 1) % 4 = 3 THEN 255
                ELSE IF Checkerboard[k] = 0 THEN 26 ELSE 230

(* C13 witness: that call has been made on the checkerboard.               *)
C13_Witness == RestoreOnCheckerboard /\ data[1] = 26 /\ data[5] = 230

(* the filters that change the samples of the buffer in place *)
InPlaceNames == {"applyRestorationFilter", "applyStyleTransfer", "applyColorization"}

(* the filter of the last call, with its arguments, applied to buffer d *)
Reapplied(d) ==
  CASE op.name = "applyRestorationFilter" -> RestorationFilter(d, op.strength)
    [] op.name = "applyStyleTransfer" -> StyleTransfer(d, op.style, op.intensity)
    [] op.name = "applyColorization" -> Colorization(d, op.style, op.intensity)
    [] OTHER -> d

(* pixel p (1-based) of buffer d, as a buffer of one pixel *)
PixelOf(d, p) == SubSeq(d, 4 * p - 3, 4 * p)

(* C14: after applyRestorationFilter, applyStyleTransfer or                *)
(* applyColorization every pixel of the output is what the filter gives    *)
(* for that pixel alone: it depends on no other pixel of the input.        *)
C14_PixelLocal ==
  (pc = "filtered" /\ op.name \in InPlaceNames) =>
    \A p \in 1..(Len(data) \div 4) :
      PixelOf(data, p) = Reapplied(PixelOf(before.data, p))

(* C14 witness: a filter has changed an image whose first two pixels       *)
(* differ.                                                                 *)
C14_Witness ==
  /\ pc = "filtered" /\ op.name \in InPlaceNames
  /\ Len(data) >= 8
  /\ PixelOf(before.data, 1) # PixelOf(before.data, 2)
  /\ PixelOf(data, 1) # PixelOf(before.data, 1)
  /\ PixelOf(data, 2) # PixelOf(before.data, 2)

(* C15 as stated: a second application of an in-place filter with the same *)
(* arguments (in their documented ranges) leaves the buffer it has         *)
(* produced unchanged.                                                     *)
C15_Idempotent ==
  (pc = "filtered" /\ op.name \in InPlaceNames /\ ParamInRange) =>
    Reapplied(data) = data

(* C15 amended: at strength 0 or intensity 0 a second application of an    *)
(* in-place filter leaves the buffer it has produced unchanged.            *)
C15_IdempotentAtZero ==
  (pc = "filtered" /\ op.name \in InPlaceNames /\ op.strength = 0 /\ op.intensity = 0) =>
    Reapplied(data) = data

(* C15 witness: a filter called with intensity 0 has changed the buffer.   *)
C15_Witness ==
  /\ pc = "filtered" /\ op.name \in {"applyStyleTransfer", "applyColorization"}
  /\ op.intensity = 0
  /\ data # before.data

----------------------------------------------------------------------------
(* C16: every call of generateImageFromPrompt computes an index in 0..7    *)
(* and returns one of the 8 placeholder URLs, and two calls with the same  *)
(* prompt and seed return the same URL whatever their creativity values.   *)
C16_Deterministic ==
  gen # NoGen =>
    /\ gen.index \in 0..7
    /\ \E k \in 1..8 : gen.url = PLACEHOLDER_IMAGES[k]
    /\ (prev # NoGen /\ prev.prompt = gen.prompt /\ prev.seed = gen.seed) =>
         prev.url = gen.url

(* the same prompt and seed twice with two creativity values, on a hash    *)
(* that wrapped to a negative 32-bit integer not divisible by 8            *)
C16_Witness ==
  /\ gen # NoGen /\ prev # NoGen
  /\ prev.prompt = gen.prompt /\ prev.seed = gen.seed
  /\ prev.creativity # gen.creativity
  /\ gen.hash < 0 /\ gen.hash % 8 # 0

----------------------------------------------------------------------------
(* the luma of pixel (x, y), in thousandths *)
LumaXY(d, w, x, y) == LumaAt(d, (y * w + x) * 4)

(* |4*center - top - bottom - left - right| at pixel (x, y) *)
LaplacianXY(d, w, x, y) ==
  Abs(4 * LumaXY(d, w, x, y) - LumaXY(d, w, x, y - 1) - LumaXY(d, w, x, y + 1)
      - LumaXY(d, w, x - 1, y) - LumaXY(d, w, x + 1, y))

(* the sum of the Laplacian over the pixels 1..x of row y *)
RECURSIVE RowSum(_, _, _, _)
RowSum(d, w, x, y) ==
  IF x = 0 THEN 0 ELSE RowSum(d, w, x - 1, y) + LaplacianXY(d, w, x, y)

(* the sum of the Laplacian over the interior pixels of the rows 1..y *)
RECURSIVE InteriorSum(_, _, _)
InteriorSum(d, w, y) ==
  IF y = 0 THEN 0 ELSE InteriorSum(d, w, y - 1) + RowSum(d, w, w - 2, y)

(* C17: for width >= 3 and height >= 3 the score is min(M/50, 10), M the   *)
(* mean of the absolute Laplacian of luma over exactly the interior pixels *)
(* 1 <= x <= width-2, 1 <= y <= height-2.                                  *)
C17_InteriorLaplacian ==
  (pc = "scored" /\ width >= 3 /\ height >= 3) =>
    LET n   == (width - 2) * (height - 2)
        sum == InteriorSum(data, width, height - 2)
        den == n * 50 * 1000
    IN  /\ ~score.nan
        /\ IF sum < 10 * den THEN score.num * den = sum * score.den
                              ELSE score.num = 10 * score.den

----------------------------------------------------------------------------
(* C18: after applySuperResolution every colour sample of a pixel that has *)
(* its four neighbours is clamp(5*c - t - b - l - r, 0, 255) over the      *)
(* values of the resampled buffer as it was before the sharpening pass.    *)
C18_SharpenFromResampled ==
  (pc = "filtered" /\ op.name = "applySuperResolution") =>
    \A x \in 1..(width - 2), y \in 1..(height - 2), channel \in 0..2 :
      LET k   == (y * width + x) * 4 + channel + 1
          row == width * 4
      IN  data[k] = Max(0, Min(255, 5 * resampled[k] - resampled[k - row]
                                    - resampled[k + row] - resampled[k - 4]
                                    - resampled[k + 4]))

----------------------------------------------------------------------------
(* the fraction n/d (d > 0) stored as a sample: clamped to [0,255] and     *)
(* rounded to the nearest integer, ties to even                            *)
StoredFraction(n, d) ==
  LET q == n \div d
      r == n % d
      nearest == IF 2 * r < d THEN q
                 ELSE IF 2 * r > d THEN q + 1
                 ELSE IF q % 2 = 0 THEN q ELSE q + 1
  IN  Max(0, Min(255, nearest))

(* the restored sample, with strength t in tenths:                         *)
(* v' = (v - 128) * (1 + t/20) + 128, then for t > 3 only                  *)
(* v' * (1 - t/50) + 128 * t/50                                            *)
RestoredSample(v, t) ==
  LET v1 == StoredFraction((v - 128) * (20 + t) + 128 * 20, 20)
  IN  IF t > 3 THEN StoredFraction(v1 * (50 - t) + 128 * t, 50) ELSE v1

(* C19: applyRestorationFilter stores for each colour sample v the value   *)
(* v' = clamp((v-128)*(1+0.5*strength)+128, 0, 255) and, if and only if    *)
(* strength > 0.3, then v'*(1-0.2*strength) + 128*0.2*strength; each store *)
(* keeps the nearest sample value.                                         *)
C19_RestoreFormula ==
  (pc = "filtered" /\ op.name = "applyRestorationFilter") =>
    /\ Len(data) = Len(before.data)
    /\ \A k \in 1..Len(data) :
         data[k] = IF (k - 1) % 4 = 3 THEN before.data[k]
                   ELSE RestoredSample(before.data[k], op.strength)

(* strength exactly 0.3: only the contrast stretch, 200 becomes 211 (with  *)
(* the blend it would be 206)                                              *)
C19_Witness ==
  /\ pc = "filtered" /\ op.name = "applyRestorationFilter"
  /\ op.strength = 3
  /\ \E k \in 1..Len(data) : before.data[k] = 200 /\ data[k] = 211

----------------------------------------------------------------------------
(* one line of the sepia matrix: the weighted sum of the three inputs,     *)
(* blended by the intensity with the channel's own value, at most 255      *)
SepiaLine(cr, cg, cb, r, g, b, own, i) ==
  Min(Num(255), Mul(Mul(r, cr) + Mul(g, cg) + Mul(b, cb), i) + Mul(own, ONE - i))

SepiaR(r, g, b, i) == SepiaLine(393000, 769000, 189000, r, g, b, r, i)

(* the new G: from the updated R and the original G and B *)
SepiaG(r, g, b, i) ==
  SepiaLine(349000, 686000, 168000, SepiaR(r, g, b, i), g, b, g, i)

(* the new B as C20 states it: from the updated R, the original G and B *)
SepiaBOriginalG(r, g, b, i) ==
  SepiaLine(272000, 534000, 131000, SepiaR(r, g, b, i), g, b, b, i)

(* the new B from the updated R, the updated G and the original B *)
SepiaBUpdatedG(r, g, b, i) ==
  SepiaLine(272000, 534000, 131000, SepiaR(r, g, b, i), SepiaG(r, g, b, i), b, b, i)

VintageCall == pc = "filtered" /\ op.name = "applyStyleTransfer" /\ op.style = "vintage"

(* the three colour samples of pixel p before the call, as numbers *)
BeforeR(p) == Num(before.data[4 * p - 3])
BeforeG(p) == Num(before.data[4 * p - 2])
BeforeB(p) == Num(before.data[4 * p - 1])

(* C20 as stated: in the vintage branch the new R comes from the original  *)
(* R, G, B, and the new G and the new B each come from the updated R with  *)
(* the original G and B.                                                   *)
C20_VintageOriginalGB ==
  VintageCall =>
    \A p \in 1..(Len(data) \div 4) :
      LET i == Tenths(op.intensity)
      IN  /\ data[4 * p - 3] = ClampStore(SepiaR(BeforeR(p), BeforeG(p), BeforeB(p), i))
          /\ data[4 * p - 2] = ClampStore(SepiaG(BeforeR(p), BeforeG(p), BeforeB(p), i))
          /\ data[4 * p - 1] =
               ClampStore(SepiaBOriginalG(BeforeR(p), BeforeG(p), BeforeB(p), i))

(* C20 amended: the new R comes from the original R, G, B; the new G from  *)
(* the updated R with the original G and B; the new B from the updated R,  *)
(* the updated G and the original B.                                       *)
C20_VintageChain ==
  VintageCall =>
    \A p \in 1..(Len(data) \div 4) :
      LET i == Tenths(op.intensity)
      IN  /\ data[4 * p - 3] = ClampStore(SepiaR(BeforeR(p), BeforeG(p), BeforeB(p), i))
          /\ data[4 * p - 2] = ClampStore(SepiaG(BeforeR(p), BeforeG(p), BeforeB(p), i))
          /\ data[4 * p - 1] =
               ClampStore(SepiaBUpdatedG(BeforeR(p), BeforeG(p), BeforeB(p), i))

(* vintage at intensity 1.0 on (200,100,40): R 163, G 132, and B 120 (it   *)
(* would be 103 with the original G)                                       *)
C20_Witness ==
  /\ VintageCall /\ op.intensity = 10
  /\ \E p \in 1..(Len(data) \div 4) :
       /\ PixelOf(before.data, p) = <<200, 100, 40, 128>>
       /\ PixelOf(data, p) = <<163, 132, 120, 128>>

----------------------------------------------------------------------------
(* the last call of generateImages took the batch branch *)
BatchCall == design.args.batchMode /\ trim(design.args.batchPrompts) # <<>>

(* the non-blank lines of the batch field the call has read *)
NonBlankLines == SelectSeq(split(design.args.batchPrompts), NonBlank)

(* C21: a batch call sends its requests one at a time, the k-th (from 0)   *)
(* after k responses, for the k-th non-blank line with seed + k and batch  *)
(* = false, never more than 5; a call that ends successfully has sent one  *)
(* request for each of the first 5 non-blank lines.                        *)
C21_BatchRequests ==
  BatchCall =>
    /\ Len(design.sent) <= 5
    /\ Len(design.sent) <= Len(NonBlankLines)
    /\ design.pending <= 1
    /\ design.generating =>
         design.pending = 1 /\ Len(design.sent) = design.call.allResults + 1
    /\ \A k \in 1..Len(design.sent) :
         /\ design.sent[k].prompt = trim(NonBlankLines[k])
         /\ design.sent[k].seed = design.args.seed + (k - 1)
         /\ design.sent[k].batch = FALSE
    /\ design.message = "Generated" =>
         Len(design.sent) = Min(5, Len(NonBlankLines))

(* a batch call over seven non-blank lines has ended: five requests, the   *)
(* last with seed + 4                                                      *)
C21_Witness ==
  /\ BatchCall /\ design.message = "Generated"
  /\ Len(NonBlankLines) = 7 /\ Len(design.sent) = 5
  /\ design.args.seed = 41 /\ design.sent[5].seed = 45
  /\ design.sent[3].prompt = <<"c">>

(* C28: no request that generateImages sends has an empty or blank prompt. *)
C28_NoBlankPrompt ==
  \A k \in 1..Len(design.sent) : trim(design.sent[k].prompt) # <<>>

----------------------------------------------------------------------------
(* the values the loop index i takes over a buffer of len samples *)
LoopIndices(len, w) ==
  { i \in LoopStart(w)..(len - w * 4 - 4 - 1) : (i - LoopStart(w)) % 4 = 0 }

(* C22: in the scoring loop and in the sharpening loop the index i is a    *)
(* multiple of 4, and the lowest and the highest index of the buffer that  *)
(* an iteration touches lie in [0, length).                                *)
C22_IndicesInBuffer ==
  /\ pc = "scored" =>
       \A i \in LoopIndices(Len(data), width) :
         /\ i % 4 = 0
         /\ i - width * 4 >= 0
         /\ i + width * 4 + 2 < Len(data)
  /\ (pc = "filtered" /\ op.name = "applySuperResolution") =>
       \A i \in LoopIndices(Len(data), width) :
         /\ i % 4 = 0
         /\ i + (0 - width - 1) * 4 >= 0
         /\ i + (width + 1) * 4 + 2 < Len(data)

----------------------------------------------------------------------------
(* the last call passed a style or a scheme that the switch does not know *)
UnknownName ==
  \/ op.name = "applyStyleTransfer" /\ op.style \notin Styles
  \/ op.name = "applyColorization" /\ op.style \notin Schemes

(* C29: the three in-place filters leave every alpha sample as it was, and *)
(* applyStyleTransfer with an unknown style and applyColorization with an  *)
(* unknown scheme leave every sample as it was.                            *)
C29_AlphaAndUnknownKept ==
  (pc = "filtered" /\ op.name \in InPlaceNames) =>
    /\ Len(data) = Len(before.data)
    /\ \A k \in 1..Len(data) : (k - 1) % 4 = 3 => data[k] = before.data[k]
    /\ UnknownName => data = before.data

(* an unknown name at full intensity on an image with a translucent        *)
(* coloured pixel                                                          *)
C29_Witness ==
  /\ pc = "filtered" /\ UnknownName /\ op.intensity = 10
  /\ \E p \in 1..(Len(data) \div 4) : PixelOf(data, p) = <<200, 100, 40, 128>>

----------------------------------------------------------------------------
(* C23: whenever processing is true it is eventually false again.          *)
C23_ProcessingEnds == studio.processing ~> ~studio.processing

(* C24: the row that a save inserts holds the values that were passed to   *)
(* the filter for the image on the canvas that the save stores.            *)
C24_RowIsProcessedSettings ==
  studio.save.pc = "insert" =>
    /\ studio.save.row.restoration_strength = studio.save.canvas.strength
    /\ studio.save.row.enhancement_type = studio.save.canvas.type
    /\ studio.save.row.style_applied = studio.save.canvas.style
    /\ studio.save.row.upscale_factor = studio.save.canvas.factor

(* C25: an image that handleImageSelect has set, with its preview, after   *)
(* the last save that succeeded is not cleared by any step.                *)
C25_SelectionKept ==
  [][ (/\ studio.sinceSave
       /\ studio.originalImage # 0
       /\ studio.originalPreview = studio.originalImage)
      => (studio'.originalImage # 0 /\ studio'.originalPreview # 0) ]_vars

(* a save has ended at this step *)
SaveEnds == studio.save.pc # "idle" /\ studio'.save.pc = "idle"

(* C26: the result is uploaded only after the upload of the original has   *)
(* succeeded, and the row is inserted only after both have; a save that    *)
(* ends leaves saving false; it shows the success message and schedules    *)
(* the form reset only when it ends at the insert, and then both or none.  *)
C26_SaveOrder ==
  [][ /\ studio'.save.pc \in {"toBlob", "uploadOriginal"} => studio'.save.steps = <<>>
      /\ studio'.save.pc = "uploadResult" =>
           studio'.save.steps = <<"uploadOriginal ok">>
      /\ studio'.save.pc = "insert" =>
           studio'.save.steps = <<"uploadOriginal ok", "uploadResult ok">>
      /\ SaveEnds =>
           /\ ~studio'.saving
           /\ studio.save.pc # "insert" =>
                studio'.message # "saved" /\ studio'.timers = studio.timers
           /\ studio.save.pc = "insert" =>
                \/ studio'.message = "saved" /\ studio'.timers = studio.timers + 1
                \/ studio'.message # "saved" /\ studio'.timers = studio.timers ]_vars

(* a save has ended in an error, with no form reset pending *)
C26_Witness ==
  /\ studio.message = "Error saving" /\ ~studio.saving
  /\ studio.save.pc = "idle" /\ studio.timers = 0
  /\ studio.resultPreview # 0

(* the seeds of the rows are seed, seed + 1, ... *)
SeedsInOrder(r) ==
  \A k \in 1..Len(r.rows) : r.rows[k].seed_value = r.seed + (k - 1)

(* C27: a request answered with 401, 400 or 500 has left no row; a batch   *)
(* request that succeeds has inserted min(batchCount, 4) rows with the     *)
(* seeds seed, seed + 1, ... and returns one result per row.               *)
C27_RowsOfRequest ==
  route.pc = "responded" =>
    /\ route.status \in {401, 400, 500} => route.rows = <<>>
    /\ (route.status = 200 /\ route.batch) =>
         /\ Len(route.rows) = Min(route.batchCount, 4)
         /\ SeedsInOrder(route)
         /\ Len(route.response) = Len(route.rows)

====
